---- MODULE Spec2Model ----
(***************************************************************************)
(* Model of the indicator engine of src/fibo_chart.py.                     *)
(*                                                                         *)
(* A price frame (pandas DataFrame) is a function from column names to     *)
(* series; a series is a sequence of numbers, position i of the source     *)
(* (0-based) being index i+1 here.                                         *)
(*                                                                         *)
(* Numbers are exact: a number is a pair <<n, d>> with d >= 0 standing for *)
(* the fraction n/d in lowest terms, and the three IEEE specials of the    *)
(* float arithmetic are kept as <<0,0>> (NaN, the "undefined" marker of    *)
(* pandas), <<1,0>> (+inf) and <<-1,0>> (-inf).  Rounding of the 64-bit    *)
(* floats is not modelled.                                                 *)
(***************************************************************************)
EXTENDS Integers, Sequences, FiniteSets, TLC

VARIABLES input, df, ret, fib_levels, args, pc, result

vars == <<input, df, ret, fib_levels, args, pc, result>>

-----------------------------------------------------------------------------
(* Bounds of the model.                                                    *)

\* longest input series of the function-level specification
MaxLen == 3
\* prices are drawn from 1..MaxPrice
MaxPrice == 3
\* rolling windows / periods are drawn from 1..MaxWindow
MaxWindow == 2

-----------------------------------------------------------------------------
(* Exact arithmetic with the IEEE special values.                          *)

Abs(n) == IF n < 0 THEN -n ELSE n

Sign(n) == IF n > 0 THEN 1 ELSE IF n < 0 THEN -1 ELSE 0

RECURSIVE GCD(_, _)
GCD(a, b) == IF b = 0 THEN a ELSE GCD(b, a % b)

\* the number n/d (d may be negative or zero) in canonical form
Norm(n, d) ==
    IF d = 0 THEN <<Sign(n), 0>>
    ELSE LET g == GCD(Abs(n), Abs(d))
             s == IF d < 0 THEN -1 ELSE 1
         IN  <<s * (n \div g), s * (d \div g)>>

R(n) == <<n, 1>>

NaN == <<0, 0>>
Inf == <<1, 0>>
Zero == <<0, 1>>

IsNaN(x) == x = NaN
IsFinite(x) == x[2] # 0
IsInf(x) == x[2] = 0 /\ x[1] # 0

Neg(x) == <<-x[1], x[2]>>

Add(x, y) ==
    IF IsNaN(x) \/ IsNaN(y) THEN NaN
    ELSE IF IsInf(x) THEN (IF IsInf(y) /\ y # x THEN NaN ELSE x)
    ELSE IF IsInf(y) THEN y
    ELSE LET g == GCD(x[2], y[2])
             l == (x[2] \div g) * y[2]
         IN  Norm(x[1] * (l \div x[2]) + y[1] * (l \div y[2]), l)

Sub(x, y) == Add(x, Neg(y))

Mul(x, y) ==
    IF IsNaN(x) \/ IsNaN(y) THEN NaN
    ELSE IF IsInf(x) \/ IsInf(y)
         THEN <<Sign(x[1]) * Sign(y[1]), 0>>
    ELSE LET g1 == GCD(Abs(x[1]), y[2])
             g2 == GCD(Abs(y[1]), x[2])
             h1 == IF g1 = 0 THEN 1 ELSE g1
             h2 == IF g2 = 0 THEN 1 ELSE g2
         IN  Norm((x[1] \div h1) * (y[1] \div h2), (x[2] \div h2) * (y[2] \div h1))

\* float division: x/0 is an infinity, 0/0 and inf/inf are NaN, x/inf is 0
Div(x, y) ==
    IF IsNaN(x) \/ IsNaN(y) THEN NaN
    ELSE IF IsInf(y) THEN (IF IsInf(x) THEN NaN ELSE Zero)
    ELSE IF y[1] = 0 THEN <<Sign(x[1]), 0>>
    ELSE Mul(x, Norm(y[2], y[1]))

\* comparisons of floats: every comparison with NaN is false
Lt(x, y) ==
    /\ ~IsNaN(x)
    /\ ~IsNaN(y)
    /\ IF IsInf(x) \/ IsInf(y)
       THEN (x # y) /\ (x = Neg(Inf) \/ y = Inf)
       ELSE x[1] * y[2] < y[1] * x[2]

Gt(x, y) == Lt(y, x)

Le(x, y) == Lt(x, y) \/ (~IsNaN(x) /\ x = y)

-----------------------------------------------------------------------------
(* Numbers of the form p + sgn(q)*sqrt(|q|), p and q rational, written     *)
(* <<p, q>>: the values a square root (the rolling standard deviation)     *)
(* brings into the Bollinger columns.  <<NaN, NaN>> is their NaN.          *)

SNaN == <<NaN, NaN>>

Sqrt(v) == IF IsNaN(v) \/ Lt(v, Zero) THEN SNaN ELSE <<Zero, v>>

\* s * k, k rational
ScaleSurd(s, k) ==
    IF s = SNaN \/ IsNaN(k) THEN SNaN
    ELSE <<Mul(s[1], k), Mul(s[2], Mul(k, <<Abs(k[1]), k[2]>>))>>

\* m + s and m - s, m rational
PlusSurd(m, s) == IF IsNaN(m) \/ s = SNaN THEN SNaN ELSE <<Add(m, s[1]), s[2]>>

MinusSurd(m, s) == IF IsNaN(m) \/ s = SNaN THEN SNaN ELSE <<Sub(m, s[1]), Neg(s[2])>>

-----------------------------------------------------------------------------
(* The pandas Series operations the indicators use.                        *)

Max2(a, b) == IF a > b THEN a ELSE b

\* the positions of the window of width w that ends at position i
Window(i, w) == Max2(1, i - w + 1) .. i

\* the observations of a window: its positions that hold a number
Obs(s, i, w) == {j \in Window(i, w) : ~IsNaN(s[j])}

\* the sum of the numbers among s[lo..hi] (NaN entries are no observations)
RECURSIVE SumRange(_, _, _)
SumRange(s, lo, hi) ==
    IF lo > hi THEN Zero
    ELSE IF lo = hi THEN (IF IsNaN(s[lo]) THEN Zero ELSE s[lo])
    ELSE LET mid == (lo + hi) \div 2
         IN  Add(SumRange(s, lo, mid), SumRange(s, mid + 1, hi))

\* variant: rolling(window=w, min_periods=1): a mean from the first bar on
RollingMeanMinPeriods1(s, w) ==
    [i \in 1..Len(s) |->
        LET n == Cardinality(Obs(s, i, w))
        IN  IF n < 1 THEN NaN
            ELSE Div(SumRange(s, Max2(1, i - w + 1), i), R(n))]

\* Series.rolling(window=w).mean(): min_periods defaults to the window, so a
\* position with fewer than w observations behind it is NaN
RollingMean(s, w) ==
    [i \in 1..Len(s) |->
        LET n == Cardinality(Obs(s, i, w))
        IN  IF n < w THEN NaN
            ELSE Div(SumRange(s, Max2(1, i - w + 1), i), R(n))]

\* the squared deviations of s from m, as a series
SqDev(s, m) == [j \in 1..Len(s) |-> Mul(Sub(s[j], m), Sub(s[j], m))]

\* variant: the population standard deviation (ddof = 0)
RollingStdPopulation(s, w) ==
    [i \in 1..Len(s) |->
        LET n == Cardinality(Obs(s, i, w))
            lo == Max2(1, i - w + 1)
            m == Div(SumRange(s, lo, i), R(n))
        IN  IF n < w THEN SNaN
            ELSE Sqrt(Div(SumRange(SqDev(s, m), lo, i), R(n)))]

\* Series.rolling(window=w).std(): the sample standard deviation (ddof = 1)
RollingStd(s, w) ==
    [i \in 1..Len(s) |->
        LET n == Cardinality(Obs(s, i, w))
            lo == Max2(1, i - w + 1)
            m == Div(SumRange(s, lo, i), R(n))
        IN  IF n < w THEN SNaN
            ELSE Sqrt(Div(SumRange(SqDev(s, m), lo, i), R(n - 1)))]

\* variant: the differences without the undefined first position
\* (Series.diff().dropna())
DiffDropna(s) == [i \in 1..(Len(s) - 1) |-> Sub(s[i + 1], s[i])]

\* Series.diff(): the first position has no predecessor and is NaN
Diff(s) == [i \in 1..Len(s) |-> IF i = 1 THEN NaN ELSE Sub(s[i], s[i - 1])]

\* Series.where(cond, other): the value where cond holds, other elsewhere
Where(s, cond, other) == [i \in 1..Len(s) |-> IF cond[i] THEN s[i] ELSE other]

GtScalar(s, x) == [i \in 1..Len(s) |-> Gt(s[i], x)]

LtScalar(s, x) == [i \in 1..Len(s) |-> Lt(s[i], x)]

NegSeries(s) == [i \in 1..Len(s) |-> Neg(s[i])]

SubSeries(a, b) == [i \in 1..Len(a) |-> Sub(a[i], b[i])]

DivSeries(a, b) == [i \in 1..Len(a) |-> Div(a[i], b[i])]

\* Series.ewm(span=span, adjust=False).mean() on a series without NaN:
\* y[0] = x[0], y[t] = (1 - alpha) * y[t-1] + alpha * x[t], alpha = 2/(span+1)
RECURSIVE EwmPrefix(_, _, _)
EwmPrefix(s, alpha, n) ==
    IF n = 0 THEN <<>>
    ELSE IF n = 1 THEN <<s[1]>>
    ELSE LET prev == EwmPrefix(s, alpha, n - 1)
         IN  Append(prev, Add(Mul(Sub(R(1), alpha), prev[n - 1]), Mul(alpha, s[n])))

\* variant: ewm(com=span): alpha = 1/(span+1)
EwmCom(s, span) == EwmPrefix(s, Norm(1, span + 1), Len(s))

\* variant: the recursion started from 0 instead of the first observation
EwmZeroSeed(s, span) ==
    SubSeq(EwmPrefix(<<Zero>> \o s, Norm(2, span + 1), Len(s) + 1), 2, Len(s) + 1)

Ewm(s, span) == EwmPrefix(s, Norm(2, span + 1), Len(s))

\* Series.max() / Series.min(): NaN of an empty series
RECURSIVE MaxPrefix(_, _)
MaxPrefix(s, n) ==
    IF n = 0 THEN NaN
    ELSE IF n = 1 THEN s[1]
    ELSE LET m == MaxPrefix(s, n - 1) IN IF Gt(s[n], m) THEN s[n] ELSE m

SeriesMax(s) == MaxPrefix(s, Len(s))

RECURSIVE MinPrefix(_, _)
MinPrefix(s, n) ==
    IF n = 0 THEN NaN
    ELSE IF n = 1 THEN s[1]
    ELSE LET m == MinPrefix(s, n - 1) IN IF Lt(s[n], m) THEN s[n] ELSE m

SeriesMin(s) == MinPrefix(s, Len(s))

\* df[c] = s: the frame with column c set (added, or replaced if present)
SetCol(d, c, s) == (c :> s) @@ d

-----------------------------------------------------------------------------
(* The indicator functions.                                                *)

\* m + std * k and m - std * k, position by position
UpperBand(middle, std, k) ==
    [i \in 1..Len(middle) |-> PlusSurd(middle[i], ScaleSurd(std[i], R(k)))]

LowerBand(middle, std, k) ==
    [i \in 1..Len(middle) |-> MinusSurd(middle[i], ScaleSurd(std[i], R(k)))]

calculate_bollinger_bands(d, window, num_std) ==
    LET close == d["Close"]
        d1 == SetCol(d, "BB_Middle", RollingMean(close, window))
        d2 == SetCol(d1, "BB_Std", RollingStd(close, window))
        d3 == SetCol(d2, "BB_Upper", UpperBand(d2["BB_Middle"], d2["BB_Std"], num_std))
        d4 == SetCol(d3, "BB_Lower", LowerBand(d3["BB_Middle"], d3["BB_Std"], num_std))
    IN  d4

\* the retracement ratios 0.236, 0.382, 0.500, 0.618, 0.786
Ratio236 == Norm(236, 1000)
Ratio382 == Norm(382, 1000)
Ratio500 == Norm(500, 1000)
Ratio618 == Norm(618, 1000)
Ratio786 == Norm(786, 1000)

\* variant: the range taken from the Close column
calculate_fibonacci_retracements_close(d) ==
    LET max_price == SeriesMax(d["Close"])
        min_price == SeriesMin(d["Close"])
        diff == Sub(max_price, min_price)
    IN  [Fib_0   |-> max_price,
         Fib_236 |-> Sub(max_price, Mul(Ratio236, diff)),
         Fib_382 |-> Sub(max_price, Mul(Ratio382, diff)),
         Fib_500 |-> Sub(max_price, Mul(Ratio500, diff)),
         Fib_618 |-> Sub(max_price, Mul(Ratio618, diff)),
         Fib_786 |-> Sub(max_price, Mul(Ratio786, diff)),
         Fib_100 |-> min_price]

calculate_fibonacci_retracements(d) ==
    LET max_price == SeriesMax(d["High"])
        min_price == SeriesMin(d["Low"])
        diff == Sub(max_price, min_price)
    IN  [Fib_0   |-> max_price,
         Fib_236 |-> Sub(max_price, Mul(Ratio236, diff)),
         Fib_382 |-> Sub(max_price, Mul(Ratio382, diff)),
         Fib_500 |-> Sub(max_price, Mul(Ratio500, diff)),
         Fib_618 |-> Sub(max_price, Mul(Ratio618, diff)),
         Fib_786 |-> Sub(max_price, Mul(Ratio786, diff)),
         Fib_100 |-> min_price]

calculate_sma(d, period) == RollingMean(d["Close"], period)

\* variant: the fast average written over the Close column
calculate_macd_overwrite(d, fast, slow, signal) ==
    LET close == d["Close"]
        ema_fast == Ewm(close, fast)
        ema_slow == Ewm(close, slow)
        d0 == SetCol(d, "Close", ema_fast)
        d1 == SetCol(d0, "MACD", SubSeries(ema_fast, ema_slow))
        d2 == SetCol(d1, "MACD_Signal", Ewm(d1["MACD"], signal))
        d3 == SetCol(d2, "MACD_Histogram", SubSeries(d2["MACD"], d2["MACD_Signal"]))
    IN  d3

calculate_macd(d, fast, slow, signal) ==
    LET close == d["Close"]
        ema_fast == Ewm(close, fast)
        ema_slow == Ewm(close, slow)
        d1 == SetCol(d, "MACD", SubSeries(ema_fast, ema_slow))
        d2 == SetCol(d1, "MACD_Signal", Ewm(d1["MACD"], signal))
        d3 == SetCol(d2, "MACD_Histogram", SubSeries(d2["MACD"], d2["MACD_Signal"]))
    IN  d3

\* the two rolling averages of calculate_rsi
rsi_gain(d, period) ==
    LET delta == Diff(d["Close"])
    IN  RollingMean(Where(delta, GtScalar(delta, Zero), Zero), period)

rsi_loss(d, period) ==
    LET delta == Diff(d["Close"])
    IN  RollingMean(NegSeries(Where(delta, LtScalar(delta, Zero), Zero)), period)

\* variant: the ratio taken as loss over gain
calculate_rsi_swapped(d, period) ==
    LET gain == rsi_gain(d, period)
        loss == rsi_loss(d, period)
        rs == DivSeries(loss, gain)
    IN  SetCol(d, "RSI",
            [i \in 1..Len(rs) |-> Sub(R(100), Div(R(100), Add(R(1), rs[i])))])

calculate_rsi(d, period) ==
    LET gain == rsi_gain(d, period)
        loss == rsi_loss(d, period)
        rs == DivSeries(gain, loss)
    IN  SetCol(d, "RSI",
            [i \in 1..Len(rs) |-> Sub(R(100), Div(R(100), Add(R(1), rs[i])))])

-----------------------------------------------------------------------------
(* Program constants: the default arguments and the periods create_chart   *)
(* passes.                                                                 *)

BB_WINDOW == 20
BB_NUM_STD == 2
SMA_SHORT == 90
SMA_LONG == 200
MACD_FAST == 12
MACD_SLOW == 26
MACD_SIGNAL == 9
RSI_PERIOD == 14

-----------------------------------------------------------------------------
(* Input frames.  A frame holds the three price columns the indicators     *)
(* read; High and Low lie a spread above and below Close.                  *)

MkFrame(close, spread) ==
    [Close |-> close,
     High  |-> [i \in 1..Len(close) |-> Add(close[i], R(spread))],
     Low   |-> [i \in 1..Len(close) |-> Sub(close[i], R(spread))]]

Spreads == {0, 1}

\* every Close series of length 0..MaxLen over the prices 1..MaxPrice
CloseSeries ==
    UNION {[1..n -> {R(p) : p \in 1..MaxPrice}] : n \in 0..MaxLen}

\* the example series of the specification: Close = 10, 11, ..., 29
ExampleClose == [i \in 1..BB_WINDOW |-> R(9 + i)]

Frames == {MkFrame(c, s) : c \in CloseSeries \cup {ExampleClose}, s \in Spreads}

\* n bars at price v, the last one moved by step
StepSeries(n, v, step) == [i \in 1..n |-> IF i = n THEN R(v + step) ELSE R(v)]

\* the lengths of the series yf.download hands to create_chart in the model:
\* around each default window that a series without history can satisfy
DownloadLengths ==
    {0, 1, 2, RSI_PERIOD, RSI_PERIOD + 1, BB_WINDOW - 1, BB_WINDOW, BB_WINDOW + 1}

Downloads ==
    {MkFrame(StepSeries(n, v, step), s) :
        n \in DownloadLengths, v \in 2..(MaxPrice + 1), step \in {-1, 0, 1}, s \in Spreads}

\* the DatetimeIndex of a frame of n bars, as day numbers: in order, with
\* the first two bars carrying the same timestamp, with the first two bars
\* out of order
Chronological(n) == [i \in 1..n |-> i]

DuplicateFirst(n) == [i \in 1..n |-> IF i = 1 THEN 2 ELSE i]

SwappedFirst(n) == [i \in 1..n |-> IF i = 1 THEN 2 ELSE IF i = 2 THEN 1 ELSE i]

Indexes(n) ==
    IF n < 2 THEN {Chronological(n)}
    ELSE {Chronological(n), DuplicateFirst(n), SwappedFirst(n)}

\* what yf.download returns: the rows and their index
DownloadResults ==
    UNION {{[frame |-> f, index |-> ix] : ix \in Indexes(Len(f["Close"]))} :
             f \in Downloads}

NoArgs == [fn |-> "none", p1 |-> 0, p2 |-> 0, p3 |-> 0]

NoLevels == <<>>

-----------------------------------------------------------------------------
(* create_chart: the pipeline from the downloaded frame to the chart.      *)

\* variant: the emptiness check left out
empty_unchecked(d) == FALSE

\* df.empty: the frame has no rows
empty(d) == Len(d["Close"]) = 0

\* yf.download has returned and normalize_columns has flattened the column
\* names: df is any of the frames of the model
Init ==
    /\ input \in DownloadResults
    /\ df = input.frame
    /\ ret = <<>>
    /\ fib_levels = NoLevels
    /\ args = NoArgs
    /\ pc = "empty_check"
    /\ result = "pending"

\* if df.empty: print the error and return None
EmptyCheck ==
    /\ pc = "empty_check"
    /\ IF empty(df)
       THEN pc' = "done" /\ result' = "None"
       ELSE pc' = "bollinger" /\ result' = result
    /\ UNCHANGED <<input, df, ret, fib_levels, args>>

\* df = calculate_bollinger_bands(df)
StepBollinger ==
    /\ pc = "bollinger"
    /\ df' = calculate_bollinger_bands(df, BB_WINDOW, BB_NUM_STD)
    /\ args' = [fn |-> "calculate_bollinger_bands", p1 |-> BB_WINDOW, p2 |-> BB_NUM_STD, p3 |-> 0]
    /\ pc' = "sma90"
    /\ UNCHANGED <<input, ret, fib_levels, result>>

\* df['SMA90'] = calculate_sma(df, 90)
StepSma90 ==
    /\ pc = "sma90"
    /\ ret' = calculate_sma(df, SMA_SHORT)
    /\ df' = SetCol(df, "SMA90", ret')
    /\ args' = [fn |-> "calculate_sma", p1 |-> SMA_SHORT, p2 |-> 0, p3 |-> 0]
    /\ pc' = "sma200"
    /\ UNCHANGED <<input, fib_levels, result>>

\* df['SMA200'] = calculate_sma(df, 200)
StepSma200 ==
    /\ pc = "sma200"
    /\ ret' = calculate_sma(df, SMA_LONG)
    /\ df' = SetCol(df, "SMA200", ret')
    /\ args' = [fn |-> "calculate_sma", p1 |-> SMA_LONG, p2 |-> 0, p3 |-> 0]
    /\ pc' = "macd"
    /\ UNCHANGED <<input, fib_levels, result>>

\* df = calculate_macd(df)
StepMacd ==
    /\ pc = "macd"
    /\ df' = calculate_macd(df, MACD_FAST, MACD_SLOW, MACD_SIGNAL)
    /\ args' = [fn |-> "calculate_macd", p1 |-> MACD_FAST, p2 |-> MACD_SLOW, p3 |-> MACD_SIGNAL]
    /\ pc' = "rsi"
    /\ UNCHANGED <<input, ret, fib_levels, result>>

\* df = calculate_rsi(df)
StepRsi ==
    /\ pc = "rsi"
    /\ df' = calculate_rsi(df, RSI_PERIOD)
    /\ args' = [fn |-> "calculate_rsi", p1 |-> RSI_PERIOD, p2 |-> 0, p3 |-> 0]
    /\ pc' = "fibonacci"
    /\ UNCHANGED <<input, ret, fib_levels, result>>

\* fib_levels = calculate_fibonacci_retracements(df)
StepFibonacci ==
    /\ pc = "fibonacci"
    /\ fib_levels' = calculate_fibonacci_retracements(df)
    /\ args' = [fn |-> "calculate_fibonacci_retracements", p1 |-> 0, p2 |-> 0, p3 |-> 0]
    /\ pc' = "render"
    /\ UNCHANGED <<input, df, ret, result>>

\* the figure is drawn from df and fib_levels and returned as a buffer
Render ==
    /\ pc = "render"
    /\ pc' = "done"
    /\ result' = "buf"
    /\ UNCHANGED <<input, df, ret, fib_levels, args>>

Next ==
    \/ EmptyCheck
    \/ StepBollinger
    \/ StepSma90
    \/ StepSma200
    \/ StepMacd
    \/ StepRsi
    \/ StepFibonacci
    \/ Render

Spec == Init /\ [][Next]_vars

-----------------------------------------------------------------------------
(* The indicator functions called on their own, on any frame and with any  *)
(* configuration.                                                          *)

Windows == 1..MaxWindow \cup {BB_WINDOW}

Periods == 1..MaxWindow

NumStds == {1, BB_NUM_STD}

Spans == {2, 3}

InitFn ==
    /\ input \in {[frame |-> f, index |-> Chronological(Len(f["Close"]))] : f \in Frames}
    /\ df = input.frame
    /\ ret = <<>>
    /\ fib_levels = NoLevels
    /\ args = NoArgs
    /\ pc = "call"
    /\ result = "pending"

CallBollinger ==
    /\ pc = "call"
    /\ \E w \in Windows, k \in NumStds :
        /\ df' = calculate_bollinger_bands(df, w, k)
        /\ args' = [fn |-> "calculate_bollinger_bands", p1 |-> w, p2 |-> k, p3 |-> 0]
    /\ pc' = "returned"
    /\ UNCHANGED <<input, ret, fib_levels, result>>

CallSma ==
    /\ pc = "call"
    /\ \E p \in Windows :
        /\ ret' = calculate_sma(df, p)
        /\ args' = [fn |-> "calculate_sma", p1 |-> p, p2 |-> 0, p3 |-> 0]
    /\ pc' = "returned"
    /\ UNCHANGED <<input, df, fib_levels, result>>

\* the exact fractions of the averages grow with every bar: the series is
\* kept to MaxLen bars here
CallMacd ==
    /\ pc = "call"
    /\ Len(df["Close"]) <= MaxLen
    /\ \E f \in Spans, s \in Spans, g \in Spans :
        /\ df' = calculate_macd(df, f, s, g)
        /\ args' = [fn |-> "calculate_macd", p1 |-> f, p2 |-> s, p3 |-> g]
    /\ pc' = "returned"
    /\ UNCHANGED <<input, ret, fib_levels, result>>

CallRsi ==
    /\ pc = "call"
    /\ \E p \in Periods :
        /\ df' = calculate_rsi(df, p)
        /\ args' = [fn |-> "calculate_rsi", p1 |-> p, p2 |-> 0, p3 |-> 0]
    /\ pc' = "returned"
    /\ UNCHANGED <<input, ret, fib_levels, result>>

CallFibonacci ==
    /\ pc = "call"
    /\ fib_levels' = calculate_fibonacci_retracements(df)
    /\ args' = [fn |-> "calculate_fibonacci_retracements", p1 |-> 0, p2 |-> 0, p3 |-> 0]
    /\ pc' = "returned"
    /\ UNCHANGED <<input, df, ret, result>>

NextFn ==
    \/ CallBollinger
    \/ CallSma
    \/ CallMacd
    \/ CallRsi
    \/ CallFibonacci

SpecFn == InitFn /\ [][NextFn]_vars

-----------------------------------------------------------------------------
(* The computations of create_chart run once each on the same frame, with  *)
(* the periods of create_chart, in any order.  A computation has run when  *)
(* the column it adds is in the frame (when the levels are set, for the    *)
(* Fibonacci retracements).                                                *)

\* the frames of the any-order runs: the downloads of two bars and those
\* with exactly as many bars as the Bollinger window
AnyLengths == {2, BB_WINDOW}

AnyFrames == {f \in Downloads : Len(f["Close"]) \in AnyLengths}

InitAny ==
    /\ input \in {[frame |-> f, index |-> Chronological(Len(f["Close"]))] : f \in AnyFrames}
    /\ df = input.frame
    /\ ret = <<>>
    /\ fib_levels = NoLevels
    /\ args = NoArgs
    /\ pc = "any"
    /\ result = "pending"

AnyBollinger ==
    /\ pc = "any"
    /\ "BB_Middle" \notin DOMAIN df
    /\ df' = calculate_bollinger_bands(df, BB_WINDOW, BB_NUM_STD)
    /\ args' = [fn |-> "calculate_bollinger_bands", p1 |-> BB_WINDOW, p2 |-> BB_NUM_STD, p3 |-> 0]
    /\ UNCHANGED <<input, ret, fib_levels, pc, result>>

AnySma90 ==
    /\ pc = "any"
    /\ "SMA90" \notin DOMAIN df
    /\ ret' = calculate_sma(df, SMA_SHORT)
    /\ df' = SetCol(df, "SMA90", ret')
    /\ args' = [fn |-> "calculate_sma", p1 |-> SMA_SHORT, p2 |-> 0, p3 |-> 0]
    /\ UNCHANGED <<input, fib_levels, pc, result>>

AnySma200 ==
    /\ pc = "any"
    /\ "SMA200" \notin DOMAIN df
    /\ ret' = calculate_sma(df, SMA_LONG)
    /\ df' = SetCol(df, "SMA200", ret')
    /\ args' = [fn |-> "calculate_sma", p1 |-> SMA_LONG, p2 |-> 0, p3 |-> 0]
    /\ UNCHANGED <<input, fib_levels, pc, result>>

AnyMacd ==
    /\ pc = "any"
    /\ "MACD" \notin DOMAIN df
    /\ df' = calculate_macd(df, MACD_FAST, MACD_SLOW, MACD_SIGNAL)
    /\ args' = [fn |-> "calculate_macd", p1 |-> MACD_FAST, p2 |-> MACD_SLOW, p3 |-> MACD_SIGNAL]
    /\ UNCHANGED <<input, ret, fib_levels, pc, result>>

AnyRsi ==
    /\ pc = "any"
    /\ "RSI" \notin DOMAIN df
    /\ df' = calculate_rsi(df, RSI_PERIOD)
    /\ args' = [fn |-> "calculate_rsi", p1 |-> RSI_PERIOD, p2 |-> 0, p3 |-> 0]
    /\ UNCHANGED <<input, ret, fib_levels, pc, result>>

AnyFibonacci ==
    /\ pc = "any"
    /\ fib_levels = NoLevels
    /\ fib_levels' = calculate_fibonacci_retracements(df)
    /\ args' = [fn |-> "calculate_fibonacci_retracements", p1 |-> 0, p2 |-> 0, p3 |-> 0]
    /\ UNCHANGED <<input, df, ret, pc, result>>

NextAny ==
    \/ AnyBollinger
    \/ AnySma90
    \/ AnySma200
    \/ AnyMacd
    \/ AnyRsi
    \/ AnyFibonacci

SpecAny == InitAny /\ [][NextAny]_vars

\* the frame and the levels create_chart computes from d, in its own order
ChartFrame(d) ==
    LET bb == calculate_bollinger_bands(d, BB_WINDOW, BB_NUM_STD)
        s90 == SetCol(bb, "SMA90", calculate_sma(bb, SMA_SHORT))
        s200 == SetCol(s90, "SMA200", calculate_sma(s90, SMA_LONG))
        macd == calculate_macd(s200, MACD_FAST, MACD_SLOW, MACD_SIGNAL)
    IN  calculate_rsi(macd, RSI_PERIOD)

ChartLevels(d) == calculate_fibonacci_retracements(ChartFrame(d))

-----------------------------------------------------------------------------
(* Vocabulary of the properties.                                           *)

RawCols == {"Close", "High", "Low"}

\* the length of the input series, and the arguments of the last call
N == Len(df["Close"])
P1 == args.p1
P2 == args.p2
P3 == args.p3

Returned(fn) == args.fn = fn

\* textbook definitions, computed independently of the series operations
RECURSIVE RefSum(_, _, _)
RefSum(s, lo, hi) == IF lo > hi THEN Zero ELSE Add(s[lo], RefSum(s, lo + 1, hi))

RECURSIVE RefSumSq(_, _, _)
RefSumSq(s, lo, hi) ==
    IF lo > hi THEN Zero ELSE Add(Mul(s[lo], s[lo]), RefSumSq(s, lo + 1, hi))

RefMean(s, lo, hi) == Div(RefSum(s, lo, hi), R(hi - lo + 1))

\* sample variance: (sum of squares - n * mean^2) / (n - 1)
RefVar(s, lo, hi) ==
    LET n == hi - lo + 1
        m == RefMean(s, lo, hi)
    IN  Div(Sub(RefSumSq(s, lo, hi), Mul(R(n), Mul(m, m))), R(n - 1))

\* m + sgn * k * sqrt(v)
RefBand(m, v, k, sgn) == IF IsNaN(v) THEN SNaN ELSE <<m, Mul(R(sgn * k * k), v)>>

RECURSIVE Pow(_, _)
Pow(x, n) == IF n = 0 THEN R(1) ELSE Mul(x, Pow(x, n - 1))

\* the exponential average at position t written out: the first observation
\* weighs (1-a)^(t-1), observation j > 1 weighs a * (1-a)^(t-j), a = 2/(span+1)
RECURSIVE RefEmaSum(_, _, _, _)
RefEmaSum(s, a, t, j) ==
    IF j > t THEN Zero
    ELSE Add(Mul(Mul(IF j = 1 THEN R(1) ELSE a, Pow(Sub(R(1), a), t - j)), s[j]),
             RefEmaSum(s, a, t, j + 1))

RefEma(s, span, t) == RefEmaSum(s, Div(R(2), R(span + 1)), t, 1)

StrictlyIncreasing(s) == \A i \in 1..(Len(s) - 1) : Lt(s[i], s[i + 1])

StrictlyDecreasing(s) == \A i \in 1..(Len(s) - 1) : Lt(s[i + 1], s[i])

-----------------------------------------------------------------------------
(* RSI.  Position i of the source is index i+1: "i >= P" reads "k > P".    *)

\* C1: past warm-up the RSI is never NaN, it is 100 wherever the average
\* loss is zero (also when the average gain is zero), and every defined RSI
\* value lies in [0, 100]
C1_RsiSaturatesAt100 ==
    Returned("calculate_rsi") =>
        /\ \A k \in 1..N : k > P1 =>
              /\ ~IsNaN(df["RSI"][k])
              /\ rsi_loss(df, P1)[k] = Zero => df["RSI"][k] = R(100)
        /\ \A k \in 1..N : ~IsNaN(df["RSI"][k]) =>
              Le(Zero, df["RSI"][k]) /\ Le(df["RSI"][k], R(100))

\* C2: the RSI is undefined at every position i < P
C2_RsiUndefinedBeforeP ==
    Returned("calculate_rsi") => \A k \in 1..N : k <= P1 => IsNaN(df["RSI"][k])

\* C10: on a strictly increasing Close the RSI is 100 at every position past
\* warm-up, on a strictly decreasing Close it is 0 there
C10_RsiMonotoneSeries ==
    Returned("calculate_rsi") =>
        /\ StrictlyIncreasing(df["Close"]) =>
              \A k \in 1..N : k > P1 => df["RSI"][k] = R(100)
        /\ StrictlyDecreasing(df["Close"]) =>
              \A k \in 1..N : k > P1 => df["RSI"][k] = Zero

C10_Witness ==
    /\ pc = "returned"
    /\ Returned("calculate_rsi")
    /\ P1 = 2
    /\ N = 3
    /\ StrictlyDecreasing(df["Close"])
    /\ df["RSI"][3] = Zero

-----------------------------------------------------------------------------
(* Frame effects.                                                          *)

\* the columns each indicator function writes into the frame it is given
Written(fn) ==
    IF fn = "calculate_bollinger_bands"
    THEN {"BB_Middle", "BB_Std", "BB_Upper", "BB_Lower"}
    ELSE IF fn = "calculate_macd" THEN {"MACD", "MACD_Signal", "MACD_Histogram"}
    ELSE IF fn = "calculate_rsi" THEN {"RSI"}
    ELSE {}

-----------------------------------------------------------------------------
(* create_chart on an empty download.                                      *)

\* C4: an empty series is turned away before any indicator runs: with an
\* empty frame create_chart is at its emptiness check or has returned None,
\* no indicator function has been called, the frame has no derived column
\* and no Fibonacci levels exist
C4_EmptyRejected ==
    N = 0 =>
        /\ pc \in {"empty_check", "done"}
        /\ pc = "done" => result = "None"
        /\ args = NoArgs
        /\ DOMAIN df = RawCols
        /\ fib_levels = NoLevels
        /\ ret = <<>>

C4_Witness == N = 0 /\ pc = "done" /\ result = "None"

-----------------------------------------------------------------------------
(* Shape of the derived series.                                            *)

\* C5: every derived series (the columns the calls add, and the series
\* calculate_sma returns) has one entry for each position 1..N of the input
C5_DerivedLengths ==
    /\ \A c \in DOMAIN df : DOMAIN df[c] = 1..N
    /\ Returned("calculate_sma") => DOMAIN ret = 1..N

C5_Witness ==
    /\ pc = "returned"
    /\ Returned("calculate_rsi")
    /\ N = MaxLen
    /\ DOMAIN df["RSI"] = 1..MaxLen

-----------------------------------------------------------------------------
(* Rolling indicators.  Position i of the source is index i+1: "i >= W-1"  *)
(* reads "k >= W".                                                         *)

\* C6: after calculate_bollinger_bands with window W and multiplier K, at
\* every position with W bars behind it the middle band is the mean of the
\* window and the upper and lower bands lie K sample standard deviations
\* above and below it; every earlier position is undefined in all three
\* bands (so all of them, if the series has fewer than W bars); on
\* Close = 10..29 with W = 20 the first defined value is middle[19] = 19.5
C6_BollingerBands ==
    Returned("calculate_bollinger_bands") =>
        /\ \A k \in 1..N :
              IF k >= P1
              THEN LET m == RefMean(df["Close"], k - P1 + 1, k)
                       v == RefVar(df["Close"], k - P1 + 1, k)
                   IN  /\ df["BB_Middle"][k] = m
                       /\ IsFinite(m)
                       /\ df["BB_Upper"][k] = RefBand(m, v, P2, 1)
                       /\ df["BB_Lower"][k] = RefBand(m, v, P2, -1)
              ELSE /\ IsNaN(df["BB_Middle"][k])
                   /\ df["BB_Upper"][k] = SNaN
                   /\ df["BB_Lower"][k] = SNaN
        /\ (df["Close"] = ExampleClose /\ P1 = BB_WINDOW) =>
              /\ df["BB_Middle"][BB_WINDOW] = Norm(39, 2)
              /\ \A k \in 1..(BB_WINDOW - 1) : IsNaN(df["BB_Middle"][k])

C6_Witness ==
    /\ pc = "returned"
    /\ Returned("calculate_bollinger_bands")
    /\ df["Close"] = ExampleClose
    /\ P1 = BB_WINDOW
    /\ P2 = BB_NUM_STD
    /\ df["BB_Middle"][BB_WINDOW] = Norm(39, 2)
    /\ df["BB_Upper"][BB_WINDOW] = <<Norm(39, 2), R(140)>>

\* C9: after calculate_sma with period P the returned series holds the mean
\* of Close over the P bars ending at each position that has P bars behind
\* it and is undefined before; on a series shorter than P it is undefined
\* everywhere, the call returns, the frame is as it was, and the indicators
\* whose windows fit still yield their values on it
C9_SimpleMovingAverage ==
    Returned("calculate_sma") =>
        /\ pc = "returned"
        /\ DOMAIN df = RawCols
        /\ \A k \in 1..N :
              IF k >= P1
              THEN ret[k] = RefMean(df["Close"], k - P1 + 1, k) /\ IsFinite(ret[k])
              ELSE IsNaN(ret[k])
        /\ (N < P1 /\ N >= 1) =>
              /\ \A k \in 1..N : IsNaN(ret[k])
              /\ IsFinite(calculate_sma(df, N)[N])
              /\ IsFinite(calculate_bollinger_bands(df, 1, BB_NUM_STD)["BB_Middle"][N])
              /\ \A k \in 1..N : IsFinite(calculate_macd(df, 2, 3, 2)["MACD_Histogram"][k])

C9_Witness ==
    /\ pc = "returned"
    /\ Returned("calculate_sma")
    /\ N = 2
    /\ P1 = BB_WINDOW
    /\ ret = <<NaN, NaN>>

-----------------------------------------------------------------------------
(* MACD.                                                                   *)

\* C7: after calculate_macd with spans F, S, G on a non-empty series, MACD
\* is the difference of the exponential averages of Close with spans F and
\* S, the signal is the exponential average of MACD with span G, each
\* seeded with its first observation and smoothed by 2/(span+1) with no
\* bias adjustment, the histogram is MACD minus signal, and all three are
\* defined at every position from the first on
C7_Macd ==
    (Returned("calculate_macd") /\ N >= 1) =>
        \A k \in 1..N :
            /\ df["MACD"][k] =
                  Sub(RefEma(df["Close"], P1, k), RefEma(df["Close"], P2, k))
            /\ df["MACD_Signal"][k] = RefEma(df["MACD"], P3, k)
            /\ df["MACD_Histogram"][k] = Sub(df["MACD"][k], df["MACD_Signal"][k])
            /\ IsFinite(df["MACD"][k])
            /\ IsFinite(df["MACD_Signal"][k])
            /\ IsFinite(df["MACD_Histogram"][k])

C7_Witness ==
    /\ pc = "returned"
    /\ Returned("calculate_macd")
    /\ N = MaxLen
    /\ P1 < P2
    /\ \A k \in 2..N : df["MACD_Histogram"][k] # Zero
    /\ df["MACD_Histogram"][1] = Zero

-----------------------------------------------------------------------------
(* Fibonacci levels.                                                       *)

LevelNames == {"Fib_0", "Fib_236", "Fib_382", "Fib_500", "Fib_618", "Fib_786", "Fib_100"}

\* level(ratio) = hi - ratio * (hi - lo), ratio given in thousandths
RefLevel(hi, lo, thousandths) ==
    Sub(hi, Mul(Div(R(thousandths), R(1000)), Sub(hi, lo)))

IsMaxOf(x, s) == (\E i \in 1..Len(s) : s[i] = x) /\ (\A i \in 1..Len(s) : Le(s[i], x))

IsMinOf(x, s) == (\E i \in 1..Len(s) : s[i] = x) /\ (\A i \in 1..Len(s) : Le(x, s[i]))

\* C8: on a non-empty series calculate_fibonacci_retracements yields exactly
\* seven levels; level 0 is the highest High, level 1.0 the lowest Low, each
\* level is maxHigh - ratio * (maxHigh - minLow), and the levels do not
\* rise along 0, 0.236, 0.382, 0.5, 0.618, 0.786, 1.0 (they fall strictly
\* when the highest High is above the lowest Low)
C8_FibonacciLevels ==
    (Returned("calculate_fibonacci_retracements") /\ N >= 1) =>
        LET hi == fib_levels["Fib_0"]
            lo == fib_levels["Fib_100"]
            chain == <<fib_levels["Fib_0"], fib_levels["Fib_236"], fib_levels["Fib_382"],
                       fib_levels["Fib_500"], fib_levels["Fib_618"], fib_levels["Fib_786"],
                       fib_levels["Fib_100"]>>
        IN  /\ DOMAIN fib_levels = LevelNames
            /\ Cardinality(DOMAIN fib_levels) = 7
            /\ IsMaxOf(hi, df["High"])
            /\ IsMinOf(lo, df["Low"])
            /\ chain = <<RefLevel(hi, lo, 0), RefLevel(hi, lo, 236), RefLevel(hi, lo, 382),
                         RefLevel(hi, lo, 500), RefLevel(hi, lo, 618), RefLevel(hi, lo, 786),
                         RefLevel(hi, lo, 1000)>>
            /\ \A i \in 1..6 : Le(chain[i + 1], chain[i])
            /\ Lt(lo, hi) => \A i \in 1..6 : Lt(chain[i + 1], chain[i])

C8_Witness ==
    /\ pc = "returned"
    /\ Returned("calculate_fibonacci_retracements")
    /\ N = 3
    /\ fib_levels["Fib_0"] = R(4)
    /\ fib_levels["Fib_500"] = R(2)
    /\ fib_levels["Fib_100"] = Zero

-----------------------------------------------------------------------------
(* Constant prices.                                                        *)

IsConstant(s) == \A i, j \in 1..Len(s) : s[i] = s[j]

\* C11: on a series whose Close is the same value V on every bar, the
\* Bollinger middle band is V at every position from the window-th on, the
\* upper and the lower band are V as well (the deviation is 0) at every
\* position where they are defined (from the window-th on, for a window of
\* at least two bars), all three are undefined elsewhere, and MACD, its
\* signal line and its histogram are 0 at every position
C11_ConstantSeries ==
    (N >= 1 /\ IsConstant(df["Close"])) =>
        LET V == df["Close"][1]
        IN  /\ Returned("calculate_bollinger_bands") =>
                  \A k \in 1..N :
                      /\ df["BB_Middle"][k] = IF k >= P1 THEN V ELSE NaN
                      /\ df["BB_Upper"][k] =
                             IF k >= P1 /\ P1 >= 2 THEN <<V, Zero>> ELSE SNaN
                      /\ df["BB_Lower"][k] =
                             IF k >= P1 /\ P1 >= 2 THEN <<V, Zero>> ELSE SNaN
            /\ Returned("calculate_macd") =>
                  \A k \in 1..N :
                      /\ df["MACD"][k] = Zero
                      /\ df["MACD_Signal"][k] = Zero
                      /\ df["MACD_Histogram"][k] = Zero

C11_Witness ==
    /\ pc = "returned"
    /\ Returned("calculate_bollinger_bands")
    /\ N = 3
    /\ P1 = 2
    /\ df["Close"] = <<R(2), R(2), R(2)>>
    /\ df["BB_Middle"][3] = R(2)
    /\ df["BB_Upper"][3] = <<R(2), Zero>>
    /\ df["BB_Lower"][3] = <<R(2), Zero>>

-----------------------------------------------------------------------------
(* Order of the timestamps.                                                *)

\* the timestamps of an index rise strictly: none repeats, none is out of
\* order
IndexIncreasing(ix) == \A i \in 1..(Len(ix) - 1) : ix[i] < ix[i + 1]

\* C12: a downloaded frame whose timestamps do not rise strictly is rejected
\* by create_chart: every step taken on it leaves the rows and the index in
\* the order they came in, computes no indicator and no Fibonacci level, and
\* the run can only end with the result None
C12_UnorderedRejected ==
    [][~IndexIncreasing(input.index) =>
          /\ input' = input
          /\ \A c \in RawCols : df'[c] = input.frame[c]
          /\ DOMAIN df' = RawCols
          /\ args' = NoArgs
          /\ fib_levels' = NoLevels
          /\ pc' \in {"empty_check", "done"}
          /\ pc' = "done" => result' = "None"]_vars

-----------------------------------------------------------------------------
(* Independence of the indicators.                                         *)

DerivedCols ==
    {"BB_Middle", "BB_Std", "BB_Upper", "BB_Lower", "SMA90", "SMA200",
     "MACD", "MACD_Signal", "MACD_Histogram", "RSI"}

\* every computation has run
AllComputed == DerivedCols \subseteq DOMAIN df /\ fib_levels # NoLevels

====
